---- MODULE Spec2Model ----
(***************************************************************************)
(* A model of server.js: the credential bootstrap (loadKeyFromMockAPI,     *)
(* initKey, main) and the request handlers (/api/health, /api/transcribe,  *)
(* /api/intent).  The file holds two variants of the server: the one built *)
(* around main() (lines 102-298, specification Spec) and an earlier one    *)
(* that reads the key from the environment only (lines 1-100,              *)
(* specification SpecV1).  SpecResolver runs loadKeyFromMockAPI on its own *)
(* for every maxAttempts in 0..MaxAttemptsArg; SpecIntent runs the intent  *)
(* handler of main() over the full sets of requests and upstream replies.  *)
(***************************************************************************)
EXTENDS Integers, Sequences, FiniteSets, TLC

VARIABLES
    envKey,          \* process.env.OPENAI_API_KEY
    OPENAI_API_KEY,  \* let OPENAI_API_KEY (line 114)
    KEY_SOURCE,      \* let KEY_SOURCE (line 115)
    mainPc,          \* position of the top-level code / main()
    exitCode,        \* status given to process.exit, -1 while the process runs
    clientKey,       \* apiKey the OpenAI client was constructed with
    listening,       \* the HTTP server accepts connections
    lkPc,            \* position inside loadKeyFromMockAPI
    maxAttempts,     \* its parameter maxAttempts
    attempt,         \* its loop variable
    requests,        \* GET requests it has issued so far
    waits,           \* completed wait(delayMs) calls
    timerArmed,      \* fetchWithTimeout's abort timer is pending
    lkErr,           \* kind of the last error caught at line 170
    lkBody,          \* body parsed in the current attempt (line 163)
    lkKey,           \* key extracted from it (line 164)
    lkResult,        \* value it returned
    tmpFile,         \* content of /tmp/input.webm
    hPc,             \* per request slot: position of the handler serving it
    hReq,            \* per slot: the intent request being served
    hSub,            \* per slot: audio read back and submitted to the provider
    hSent,           \* per slot: responses written for the current request
    sent             \* the response most recently written to a client

vars == <<envKey, OPENAI_API_KEY, KEY_SOURCE, mainPc, exitCode, clientKey,
          listening, lkPc, maxAttempts, attempt, requests, waits, timerArmed,
          lkErr, lkBody, lkKey, lkResult, tmpFile, hPc, hReq, hSub, hSent,
          sent>>

bootVars == <<envKey, OPENAI_API_KEY, KEY_SOURCE, mainPc, exitCode, clientKey,
              listening>>
lkVars == <<lkPc, maxAttempts, attempt, requests, waits, timerArmed, lkErr,
            lkBody, lkKey, lkResult>>
reqVars == <<tmpFile, hPc, hReq, hSub, hSent, sent>>

-----------------------------------------------------------------------------
(* Bounds *)

\* Number of request slots, i.e. of requests that can be in flight at once.
MaxReqs == 2
\* Largest maxAttempts argument tried on loadKeyFromMockAPI in SpecResolver.
MaxAttemptsArg == 4
\* Largest number of properties of a payload object in SpecExtract.
MaxProps == 2

-----------------------------------------------------------------------------
(* JavaScript values.  A string is a sequence of one-character strings; a  *)
(* number n/10 is held as the integer n (one decimal digit is kept).       *)

JUndef == [t |-> "undefined", s |-> <<>>, n |-> 0]
JNull == [t |-> "null", s |-> <<>>, n |-> 0]
JNaN == [t |-> "nan", s |-> <<>>, n |-> 0]
JTrue == [t |-> "boolean", s |-> <<>>, n |-> 1]
JFalse == [t |-> "boolean", s |-> <<>>, n |-> 0]
JObj == [t |-> "object", s |-> <<>>, n |-> 0]
JArr == [t |-> "array", s |-> <<>>, n |-> 0]
JStr(s) == [t |-> "string", s |-> s, n |-> 0]
JNum(n) == [t |-> "number", s |-> <<>>, n |-> n]

\* typeof v
TypeOf(v) ==
    CASE v.t = "nan" -> "number"
      [] v.t \in {"null", "array"} -> "object"
      [] OTHER -> v.t

\* ToBoolean(v): what `if (v)`, `v && ...` and `v || ...` test
Truthy(v) ==
    CASE v.t \in {"undefined", "null", "nan"} -> FALSE
      [] v.t \in {"boolean", "number"} -> v.n # 0
      [] v.t = "string" -> Len(v.s) > 0
      [] OTHER -> TRUE

Digits == <<"0", "1", "2", "3", "4", "5", "6", "7", "8", "9">>
IsDigit(c) == \E i \in 1..10 : Digits[i] = c
DigitVal(c) == (CHOOSE i \in 1..10 : Digits[i] = c) - 1
IsSpace(c) == c \in {" ", "\t", "\n"}

RECURSIVE NatStr(_)
NatStr(k) == IF k < 10 THEN <<Digits[k + 1]>>
             ELSE NatStr(k \div 10) \o <<Digits[(k % 10) + 1]>>

\* String(n/10) for a number held as n
NumStr(n) ==
    LET a == IF n < 0 THEN 0 - n ELSE n
        whole == NatStr(a \div 10)
        frac == IF a % 10 = 0 THEN <<>> ELSE <<".", Digits[(a % 10) + 1]>>
    IN  (IF n < 0 THEN <<"-">> ELSE <<>>) \o whole \o frac

\* String(v)
ToStr(v) ==
    CASE v.t = "string" -> v.s
      [] v.t = "number" -> NumStr(v.n)
      [] v.t = "nan" -> <<"N", "a", "N">>
      [] v.t = "boolean" -> IF v.n = 1 THEN <<"t", "r", "u", "e">>
                            ELSE <<"f", "a", "l", "s", "e">>
      [] v.t = "null" -> <<"n", "u", "l", "l">>
      [] v.t = "undefined" -> <<"u", "n", "d", "e", "f", "i", "n", "e", "d">>
      [] v.t = "array" -> <<>>
      [] OTHER -> <<"[", "o", "b", "j", "e", "c", "t", " ", "O", "b", "j",
                    "e", "c", "t", "]">>

RECURSIVE TrimLeft(_)
TrimLeft(s) == IF s # <<>> /\ IsSpace(Head(s)) THEN TrimLeft(Tail(s)) ELSE s

RECURSIVE TrimRight(_)
TrimRight(s) == IF s # <<>> /\ IsSpace(s[Len(s)])
                THEN TrimRight(SubSeq(s, 1, Len(s) - 1)) ELSE s

\* String.prototype.trim
Trim(s) == TrimRight(TrimLeft(s))

RECURSIVE DigitsVal(_)
DigitsVal(s) == IF s = <<>> THEN 0
                ELSE 10 * DigitsVal(SubSeq(s, 1, Len(s) - 1)) + DigitVal(s[Len(s)])

AllDigits(s) == s # <<>> /\ \A i \in 1..Len(s) : IsDigit(s[i])

\* Number(s) for a string s: surrounding white space is ignored, the empty
\* string is 0, a decimal literal is its value and anything else is NaN.
\* (Literals with at most one fractional digit are read.)
StrToNum(s) ==
    LET u == Trim(s)
        neg == u # <<>> /\ Head(u) = "-"
        w == IF neg THEN Tail(u) ELSE u
        sign == IF neg THEN 0 - 1 ELSE 1
    IN  IF u = <<>> THEN JNum(0)
        ELSE IF AllDigits(w) THEN JNum(sign * 10 * DigitsVal(w))
        ELSE IF /\ Len(w) >= 3
                /\ w[Len(w) - 1] = "."
                /\ IsDigit(w[Len(w)])
                /\ AllDigits(SubSeq(w, 1, Len(w) - 2))
             THEN JNum(sign * (10 * DigitsVal(SubSeq(w, 1, Len(w) - 2))
                               + DigitVal(w[Len(w)])))
        ELSE JNaN

\* Number(v)
ToNum(v) ==
    CASE v.t \in {"number", "nan"} -> v
      [] v.t = "undefined" -> JNaN
      [] v.t = "null" -> JNum(0)
      [] v.t = "boolean" -> JNum(10 * v.n)
      [] v.t = "string" -> StrToNum(v.s)
      [] v.t = "array" -> JNum(0)
      [] OTHER -> JNaN

-----------------------------------------------------------------------------
(* Payloads of the remote secret endpoint.  An object is the sequence of   *)
(* its own properties in insertion order (the order Object.keys gives).    *)

Prop(name, val) == [name |-> name, val |-> val]
BObj(fields) == [t |-> "object", elems |-> <<>>, fields |-> fields]
BArr(elems) == [t |-> "array", elems |-> elems, fields |-> <<>>]
BNull == [t |-> "null", elems |-> <<>>, fields |-> <<>>]
\* body is not assigned yet (line 163 not reached in this attempt)
NoBody == [t |-> "unassigned", elems |-> <<>>, fields |-> <<>>]

\* Object.prototype.hasOwnProperty.call(c, f)
HasOwn(c, f) == c.t = "object" /\ \E i \in 1..Len(c.fields) : c.fields[i].name = f

\* c[f] for an own property f
GetProp(c, f) == c.fields[CHOOSE i \in 1..Len(c.fields) : c.fields[i].name = f].val

\* const possibleFields (line 139)
possibleFields == <<"api_key", "apikey", "key", "token", "value", "secret", "apiKey">>

\* minimum length (exclusive) of a string the heuristic of line 150 accepts
HeuristicLen == 20

\* extractKeyFromBody without line 136: the payload itself is the candidate
\* even when it is a non-empty array.
extractKeyFromBodyNoUnwrap(body) ==
    IF body.t = "null" THEN JNull
    ELSE
      LET candidate == body
          named == {i \in 1..Len(possibleFields) :
                       /\ candidate.t # "null"
                       /\ HasOwn(candidate, possibleFields[i])
                       /\ Truthy(GetProp(candidate, possibleFields[i]))}
          long == {k \in 1..Len(candidate.fields) :
                       /\ candidate.fields[k].val.t = "string"
                       /\ Len(candidate.fields[k].val.s) > HeuristicLen}
          Min(S) == CHOOSE x \in S : \A y \in S : x <= y
      IN  IF named # {}
          THEN JStr(Trim(ToStr(GetProp(candidate, possibleFields[Min(named)]))))
          ELSE IF candidate.t \in {"object", "array"} /\ long # {}
          THEN JStr(Trim(candidate.fields[Min(long)].val.s))
          ELSE JNull

\* extractKeyFromBody with the loop of line 143 run over possibleFields from
\* its last name to its first.
extractKeyFromBodyLastFirst(body) ==
    IF body.t = "null" THEN JNull
    ELSE
      LET candidate == IF body.t = "array" /\ Len(body.elems) > 0
                       THEN body.elems[1] ELSE body
          named == {i \in 1..Len(possibleFields) :
                       /\ candidate.t # "null"
                       /\ HasOwn(candidate, possibleFields[i])
                       /\ Truthy(GetProp(candidate, possibleFields[i]))}
          long == {k \in 1..Len(candidate.fields) :
                       /\ candidate.fields[k].val.t = "string"
                       /\ Len(candidate.fields[k].val.s) > HeuristicLen}
          Min(S) == CHOOSE x \in S : \A y \in S : x <= y
          Max(S) == CHOOSE x \in S : \A y \in S : x >= y
      IN  IF named # {}
          THEN JStr(Trim(ToStr(GetProp(candidate, possibleFields[Max(named)]))))
          ELSE IF candidate.t \in {"object", "array"} /\ long # {}
          THEN JStr(Trim(candidate.fields[Min(long)].val.s))
          ELSE JNull

\* function extractKeyFromBody(body): the key as a JS string, or null
extractKeyFromBody(body) ==
    IF body.t = "null" THEN JNull
    ELSE
      LET candidate == IF body.t = "array" /\ Len(body.elems) > 0
                       THEN body.elems[1] ELSE body
          named == {i \in 1..Len(possibleFields) :
                       /\ candidate.t # "null"
                       /\ HasOwn(candidate, possibleFields[i])
                       /\ Truthy(GetProp(candidate, possibleFields[i]))}
          long == {k \in 1..Len(candidate.fields) :
                       /\ candidate.fields[k].val.t = "string"
                       /\ Len(candidate.fields[k].val.s) > HeuristicLen}
          Min(S) == CHOOSE x \in S : \A y \in S : x <= y
      IN  IF named # {}
          THEN JStr(Trim(ToStr(GetProp(candidate, possibleFields[Min(named)]))))
          ELSE IF candidate.t \in {"object", "array"} /\ long # {}
          THEN JStr(Trim(candidate.fields[Min(long)].val.s))
          ELSE JNull

\* Keys and payloads used by the model
KeyA == <<"k", "A">>
KeyE == <<"k", "E">>
LongStr == [i \in 1..(HeuristicLen + 1) |-> "x"]

RemoteBodies ==
    { BArr(<<BObj(<<Prop("id", JStr(<<"1">>)),
                    Prop("api_key", JStr(<<" ">> \o KeyA \o <<" ">>))>>)>>),
      BObj(<<Prop("key", JStr(KeyA))>>),
      BObj(<<Prop("id", JStr(<<"1">>)), Prop("note", JStr(LongStr))>>),
      BObj(<<Prop("id", JStr(<<"1">>))>>),
      BObj(<<Prop("key", JStr(<<" ", " ">>))>>),
      BArr(<<>>),
      BNull }

\* a JSON string as the whole payload, or as an array element
BStr == [t |-> "string", elems |-> <<>>, fields |-> <<>>]

\* Payloads for extractKeyFromBody alone: every object of up to MaxProps
\* properties with distinct names, drawn from named fields and one other
\* name, with empty, padded, long, numeric and object values; each object
\* as the payload itself and as the first element of an array.
ExtractNames == {"api_key", "key", "secret", "apiKey", "note"}
ExtractValues ==
    { JStr(<<>>), JStr(<<" ">> \o KeyA \o <<" ">>), JStr(LongStr),
      JStr(<<" ">> \o LongStr), JNum(70), JObj }
ExtractProps == {Prop(x[1], x[2]) : x \in ExtractNames \X ExtractValues}
ExtractObjects ==
    {BObj(f) : f \in {g \in UNION {[1..n -> ExtractProps] : n \in 0..MaxProps} :
                         \A i, j \in DOMAIN g : g[i].name = g[j].name => i = j}}
ExtractCandidates == ExtractObjects \cup {BNull, BStr}
ExtractBodies ==
    ExtractCandidates \cup {BArr(<<c>>) : c \in ExtractCandidates} \cup {BArr(<<>>)}

-----------------------------------------------------------------------------
(* loadKeyFromMockAPI(maxAttempts, delayMs), lines 158-176, with           *)
(* fetchWithTimeout, lines 118-129.                                        *)

\* initKey calls loadKeyFromMockAPI(3, 1500) (line 182)
InitKeyAttempts == 3

\* CatchAttempt with the error thrown on to the caller once no attempt is left.
CatchAttemptRethrow(kind) ==
    /\ lkErr' = kind
    /\ IF attempt < maxAttempts
       THEN lkPc' = "waiting" /\ attempt' = attempt
       ELSE lkPc' = "raised" /\ attempt' = attempt
    /\ UNCHANGED <<maxAttempts, requests, waits, lkResult>>

\* The catch block, lines 170-173: the error is logged, the function waits
\* if attempts remain, and the loop goes on to attempt + 1.
CatchAttempt(kind) ==
    /\ lkErr' = kind
    /\ IF attempt < maxAttempts
       THEN lkPc' = "waiting" /\ attempt' = attempt
       ELSE lkPc' = "loop" /\ attempt' = attempt + 1
    /\ UNCHANGED <<maxAttempts, requests, waits, lkResult>>

\* Line 159 with the loop condition true, lines 119-122: the timer is armed
\* and the GET request is issued.
LoadKeyFetch ==
    /\ lkPc = "loop"
    /\ attempt <= maxAttempts
    /\ lkPc' = "headers"
    /\ requests' = requests + 1
    /\ timerArmed' = TRUE
    /\ lkBody' = NoBody
    /\ lkKey' = JUndef
    /\ UNCHANGED <<maxAttempts, attempt, waits, lkErr, lkResult>>
    /\ UNCHANGED <<bootVars, reqVars>>

\* Line 159 with the loop condition false, line 175: return null.
LoadKeyExhausted ==
    /\ lkPc = "loop"
    /\ attempt > maxAttempts
    /\ lkPc' = "returned"
    /\ lkResult' = JNull
    /\ UNCHANGED <<maxAttempts, attempt, requests, waits, timerArmed, lkErr,
                   lkBody, lkKey>>
    /\ UNCHANGED <<bootVars, reqVars>>

\* fetch rejects with a network error (lines 125-127), caught at line 170.
FetchNetworkError ==
    /\ lkPc = "headers"
    /\ timerArmed' = FALSE
    /\ CatchAttempt("network")
    /\ UNCHANGED <<lkBody, lkKey>>
    /\ UNCHANGED <<bootVars, reqVars>>

\* The timer of line 120 fires while fetch is pending: the request is
\* aborted, fetch rejects (lines 125-127), caught at line 170.
FetchTimeout ==
    /\ lkPc = "headers"
    /\ timerArmed
    /\ timerArmed' = FALSE
    /\ CatchAttempt("timeout")
    /\ UNCHANGED <<lkBody, lkKey>>
    /\ UNCHANGED <<bootVars, reqVars>>

\* fetch resolves with a response (lines 122-124); line 162 throws on a
\* non-success status.
FetchResponds(ok) ==
    /\ lkPc = "headers"
    /\ timerArmed' = FALSE
    /\ IF ok
       THEN /\ lkPc' = "body"
            /\ UNCHANGED <<maxAttempts, attempt, requests, waits, lkErr, lkResult>>
       ELSE CatchAttempt("http")
    /\ UNCHANGED <<lkBody, lkKey>>
    /\ UNCHANGED <<bootVars, reqVars>>

\* res.json() rejects: the body is not JSON or the connection broke
\* (line 163), caught at line 170.
BodyFails ==
    /\ lkPc = "body"
    /\ CatchAttempt("json")
    /\ UNCHANGED <<lkBody, lkKey>>
    /\ UNCHANGED timerArmed
    /\ UNCHANGED <<bootVars, reqVars>>

\* BodyArrives without the return of line 165: the key is kept and the
\* loop goes on to the next attempt.
BodyArrivesNoReturn(body) ==
    /\ lkPc = "body"
    /\ lkBody' = body
    /\ lkKey' = extractKeyFromBody(body)
    /\ LET key == extractKeyFromBody(body)
       IN  IF Truthy(key)
           THEN /\ lkPc' = "loop"
                /\ attempt' = attempt + 1
                /\ lkResult' = key
                /\ UNCHANGED <<maxAttempts, requests, waits, lkErr>>
           ELSE CatchAttempt("nokey")
    /\ UNCHANGED timerArmed
    /\ UNCHANGED <<bootVars, reqVars>>

\* BodyArrives with a body without key handled apart from the catch block:
\* the loop goes on to the next attempt without waiting.
BodyArrivesNoKeyNoWait(body) ==
    /\ lkPc = "body"
    /\ lkBody' = body
    /\ lkKey' = extractKeyFromBody(body)
    /\ LET key == extractKeyFromBody(body)
       IN  IF Truthy(key)
           THEN /\ lkPc' = "returned"
                /\ lkResult' = key
                /\ UNCHANGED <<maxAttempts, attempt, requests, waits, lkErr>>
           ELSE /\ lkErr' = "nokey"
                /\ lkPc' = "loop"
                /\ attempt' = attempt + 1
                /\ UNCHANGED <<maxAttempts, requests, waits, lkResult>>
    /\ UNCHANGED timerArmed
    /\ UNCHANGED <<bootVars, reqVars>>

\* res.json() resolves with body (line 163); lines 164-169.
BodyArrives(body) ==
    /\ lkPc = "body"
    /\ lkBody' = body
    /\ lkKey' = extractKeyFromBody(body)
    /\ LET key == extractKeyFromBody(body)
       IN  IF Truthy(key)
           THEN /\ lkPc' = "returned"
                /\ lkResult' = key
                /\ UNCHANGED <<maxAttempts, attempt, requests, waits, lkErr>>
           ELSE CatchAttempt("nokey")
    /\ UNCHANGED timerArmed
    /\ UNCHANGED <<bootVars, reqVars>>

\* await wait(delayMs) completes (line 172); attempt++.
WaitDone ==
    /\ lkPc = "waiting"
    /\ lkPc' = "loop"
    /\ attempt' = attempt + 1
    /\ waits' = waits + 1
    /\ UNCHANGED <<maxAttempts, requests, timerArmed, lkErr, lkBody, lkKey,
                   lkResult>>
    /\ UNCHANGED <<bootVars, reqVars>>

Resolver(bodies) ==
    \/ LoadKeyFetch
    \/ LoadKeyExhausted
    \/ FetchNetworkError
    \/ FetchTimeout
    \/ \E ok \in BOOLEAN : FetchResponds(ok)
    \/ BodyFails
    \/ \E body \in bodies : BodyArrives(body)
    \/ WaitDone

-----------------------------------------------------------------------------
(* initKey (lines 179-206) and main (lines 209-298).                       *)

\* values of process.env.OPENAI_API_KEY: unset, set to the empty string, set
EnvValues == {JUndef, JStr(<<>>), JStr(KeyE)}

\* KEY_SOURCE = null
NoSource == "null"

\* The locals of loadKeyFromMockAPI are gone once its caller has its result.
LkIdle ==
    /\ lkPc' = "idle"
    /\ maxAttempts' = 0
    /\ attempt' = 0
    /\ requests' = 0
    /\ waits' = 0
    /\ timerArmed' = FALSE
    /\ lkErr' = "none"
    /\ lkBody' = NoBody
    /\ lkKey' = JUndef
    /\ lkResult' = JUndef

\* main calls initKey (line 210), which calls loadKeyFromMockAPI(3, 1500)
\* (line 182): let attempt = 1.
InitKeyCall ==
    /\ mainPc = "initKey"
    /\ mainPc' = "resolving"
    /\ lkPc' = "loop"
    /\ maxAttempts' = InitKeyAttempts
    /\ attempt' = 1
    /\ UNCHANGED <<requests, waits, timerArmed, lkErr, lkBody, lkKey, lkResult>>
    /\ UNCHANGED <<envKey, OPENAI_API_KEY, KEY_SOURCE, exitCode, clientKey, listening>>
    /\ UNCHANGED reqVars

\* Lines 183-187: the resolver returned a key.
InitKeyRemote ==
    /\ mainPc = "resolving"
    /\ lkPc = "returned"
    /\ Truthy(lkResult)
    /\ OPENAI_API_KEY' = lkResult
    /\ KEY_SOURCE' = "mockapi"
    /\ mainPc' = "keyed"
    /\ LkIdle
    /\ UNCHANGED <<envKey, exitCode, clientKey, listening>>
    /\ UNCHANGED reqVars

\* InitKeyFallback that keeps running without a key instead of exiting.
InitKeyFallbackNoExit ==
    /\ mainPc = "resolving"
    /\ \/ lkPc = "returned" /\ ~Truthy(lkResult)
       \/ lkPc = "raised"
    /\ OPENAI_API_KEY' = envKey
    /\ KEY_SOURCE' = "env"
    /\ mainPc' = "keyed"
    /\ UNCHANGED exitCode
    /\ LkIdle
    /\ UNCHANGED <<envKey, clientKey, listening>>
    /\ UNCHANGED reqVars

\* Lines 188-205: the resolver returned nothing (or threw, line 191): the
\* environment value is used if it is set, else process.exit(1).
InitKeyFallback ==
    /\ mainPc = "resolving"
    /\ \/ lkPc = "returned" /\ ~Truthy(lkResult)
       \/ lkPc = "raised"
    /\ IF Truthy(envKey)
       THEN /\ OPENAI_API_KEY' = envKey
            /\ KEY_SOURCE' = "env"
            /\ mainPc' = "keyed"
            /\ UNCHANGED exitCode
       ELSE /\ mainPc' = "exited"
            /\ exitCode' = 1
            /\ UNCHANGED <<OPENAI_API_KEY, KEY_SOURCE>>
    /\ LkIdle
    /\ UNCHANGED <<envKey, clientKey, listening>>
    /\ UNCHANGED reqVars

\* MainWire with initKey() not awaited: the server is wired while the key
\* is still being resolved.
MainWireNoAwait ==
    /\ mainPc \in {"resolving", "keyed"}
    /\ clientKey' = OPENAI_API_KEY
    /\ mainPc' = "binding"
    /\ UNCHANGED <<envKey, OPENAI_API_KEY, KEY_SOURCE, exitCode, listening>>
    /\ UNCHANGED <<lkVars, reqVars>>

\* Lines 213-292: the client is built with the key, the routes are
\* registered and app.listen is called.
MainWire ==
    /\ mainPc = "keyed"
    /\ clientKey' = OPENAI_API_KEY
    /\ mainPc' = "binding"
    /\ UNCHANGED <<envKey, OPENAI_API_KEY, KEY_SOURCE, exitCode, listening>>
    /\ UNCHANGED <<lkVars, reqVars>>

\* The port is bound: the callback of app.listen runs (lines 98, 290).
ListenOk ==
    /\ mainPc = "binding"
    /\ listening' = TRUE
    /\ mainPc' = "serving"
    /\ UNCHANGED <<envKey, OPENAI_API_KEY, KEY_SOURCE, exitCode, clientKey>>
    /\ UNCHANGED <<lkVars, reqVars>>

\* The port cannot be bound: the server emits 'error', which nothing
\* handles, and the process dies.
ListenError ==
    /\ mainPc = "binding"
    /\ mainPc' = "exited"
    /\ exitCode' = 1
    /\ UNCHANGED <<envKey, OPENAI_API_KEY, KEY_SOURCE, clientKey, listening>>
    /\ UNCHANGED <<lkVars, reqVars>>

\* First variant, lines 13-24 and 98: the early check of the environment,
\* the client built from it, app.listen.
V1EarlyCheck ==
    /\ mainPc = "v1_check"
    /\ IF Truthy(envKey)
       THEN /\ clientKey' = envKey
            /\ mainPc' = "binding"
            /\ UNCHANGED exitCode
       ELSE /\ mainPc' = "exited"
            /\ exitCode' = 1
            /\ UNCHANGED clientKey
    /\ UNCHANGED <<envKey, OPENAI_API_KEY, KEY_SOURCE, listening>>
    /\ UNCHANGED <<lkVars, reqVars>>

-----------------------------------------------------------------------------
(* Requests and responses.                                                 *)

Reqs == 1..MaxReqs

\* Content of /tmp/input.webm: missing, empty (opened for writing and
\* truncated), or the buffer uploaded by the request in slot r.
NoFile == <<"nofile", 0>>
EmptyFile == <<"empty", 0>>
Upload(r) == <<"audio", r>>

S_on == <<"o", "n">>
S_off == <<"o", "f", "f">>
S_dim == <<"d", "i", "m">>
S_t == <<"t">>

\* req.body of POST /api/intent: text, and commands as an array or not
IntentBody(text, isArray, commands) ==
    [text |-> text, isArray |-> isArray, commands |-> commands]
NoReq == IntentBody(JUndef, FALSE, <<>>)

IntentRequests ==
    { IntentBody(JStr(S_t), TRUE, <<JStr(S_on), JStr(S_off)>>),
      IntentBody(JStr(<<>>), TRUE, <<JNum(10)>>),
      IntentBody(JStr(S_t), TRUE, <<>>),
      IntentBody(JStr(S_t), FALSE, <<>>),
      IntentBody(JNum(10), TRUE, <<JStr(S_on)>>),
      IntentBody(JUndef, FALSE, <<>>) }

\* What chat.completions.create resolves with: whether choices[0] exists,
\* whether its message.content is a string (else null or undefined), whether
\* that string is JSON text, and the value the text denotes: its type and,
\* for an object, its command and confidence properties (undefined when not
\* there) and whether it has further properties.
Reply(choice, present, valid, t, command, confidence, extra) ==
    [choice |-> choice, present |-> present, valid |-> valid, t |-> t,
     command |-> command, confidence |-> confidence, extra |-> extra]
ReplyObj(command, confidence) ==
    Reply(TRUE, TRUE, TRUE, "object", command, confidence, FALSE)
ReplyOther(t) == Reply(TRUE, TRUE, TRUE, t, JUndef, JUndef, FALSE)
NoReply == Reply(FALSE, FALSE, FALSE, "none", JUndef, JUndef, FALSE)

CommandValues ==
    {JUndef, JNull, JStr(S_on), JStr(S_dim), JStr(<<"1">>), JNum(10)}
ConfidenceValues ==
    {JUndef, JNull, JNum(9), JNum(0), JNum(10), JNum(70), JNum(0 - 10),
     JStr(<<"0", ".", "7">>), JStr(<<"h", "i">>), JObj}

UpstreamReplies ==
    {ReplyObj(c, f) : c \in CommandValues, f \in {JUndef, JNum(9)}}
    \cup {ReplyObj(JStr(S_on), f) : f \in ConfidenceValues}
    \cup {ReplyOther(t) : t \in {"null", "number", "string", "array"}}
    \cup { Reply(TRUE, TRUE, TRUE, "object", JStr(S_on), JNum(9), TRUE),
           Reply(TRUE, TRUE, FALSE, "none", JUndef, JUndef, FALSE),
           Reply(TRUE, FALSE, FALSE, "none", JUndef, JUndef, FALSE),
           Reply(FALSE, FALSE, FALSE, "none", JUndef, JUndef, FALSE) }

\* The requests, replies and payloads the whole-server specification Spec
\* draws from; SpecIntent, SpecV1 and SpecResolver draw from the full sets.
CoreRequests ==
    { IntentBody(JStr(S_t), TRUE, <<JStr(S_on), JStr(S_off)>>),
      IntentBody(JStr(S_t), TRUE, <<>>) }
CoreReplies ==
    { ReplyObj(JStr(S_on), JNum(9)), ReplyObj(JStr(S_dim), JUndef), ReplyOther("null") }
CoreBodies ==
    { BArr(<<BObj(<<Prop("id", JStr(<<"1">>)),
                    Prop("api_key", JStr(<<" ">> \o KeyA \o <<" ">>))>>)>>),
      BObj(<<Prop("id", JStr(<<"1">>))>>) }

\* transcription.text as the provider returns it
TranscriptTexts == {JUndef, JStr(<<>>), JStr(<<"h", "i">>)}

Resp(kind, status, error) ==
    [kind |-> kind, status |-> status, error |-> error,
     text |-> JUndef, command |-> JUndef, confidence |-> JUndef,
     source |-> "", keySource |-> "", extra |-> FALSE, upstream |-> "none",
     req |-> NoReq, reply |-> NoReply]
NoResp == Resp("none", 0, "")

\* res.json / res.status(..).json in the handler of slot r, which ends
Respond(r, resp) ==
    /\ sent' = resp
    /\ hSent' = [hSent EXCEPT ![r] = @ + 1]
    /\ hPc' = [hPc EXCEPT ![r] = "idle"]
    /\ hReq' = [hReq EXCEPT ![r] = NoReq]
    /\ hSub' = [hSub EXCEPT ![r] = NoFile]

-----------------------------------------------------------------------------
(* GET /api/health, lines 223-225 and 29-35.                               *)

Health ==
    /\ listening
    /\ sent' = [Resp("health", 200, "") EXCEPT
                   !.keySource = IF KEY_SOURCE # NoSource THEN KEY_SOURCE ELSE NoSource]
    /\ UNCHANGED <<tmpFile, hPc, hReq, hSub, hSent>>
    /\ UNCHANGED <<bootVars, lkVars>>

HealthV1 ==
    /\ listening
    /\ sent' = [Resp("health", 200, "") EXCEPT
                   !.keySource = IF Truthy(envKey) THEN "hasKey" ELSE "noKey"]
    /\ UNCHANGED <<tmpFile, hPc, hReq, hSub, hSent>>
    /\ UNCHANGED <<bootVars, lkVars>>

-----------------------------------------------------------------------------
(* POST /api/transcribe, lines 228-244 (and 40-57, the same code).         *)

\* The handler without the return of line 230: a request without attachment
\* is answered 400 and the handler goes on to line 232.
TranscribeArriveNoReturn(r, hasFile) ==
    /\ listening
    /\ hPc[r] = "idle"
    /\ hPc' = [hPc EXCEPT ![r] = "t_write"]
    /\ IF hasFile
       THEN /\ hSent' = [hSent EXCEPT ![r] = 0]
            /\ UNCHANGED sent
       ELSE /\ sent' = Resp("transcribe", 400, "no_audio")
            /\ hSent' = [hSent EXCEPT ![r] = 1]
    /\ UNCHANGED <<hReq, hSub>>
    /\ UNCHANGED tmpFile
    /\ UNCHANGED <<bootVars, lkVars>>

\* The handler without the check of line 230: it goes on to write the file
\* whether or not the request has an attachment.
TranscribeArriveNoCheck(r, hasFile) ==
    /\ listening
    /\ hPc[r] = "idle"
    /\ hPc' = [hPc EXCEPT ![r] = "t_write"]
    /\ hSent' = [hSent EXCEPT ![r] = 0]
    /\ UNCHANGED <<hReq, hSub, sent>>
    /\ UNCHANGED tmpFile
    /\ UNCHANGED <<bootVars, lkVars>>

\* Line 230: a request arrives in a free slot; without req.file it is
\* answered 400, else writeFile is called (line 232).
TranscribeArrive(r, hasFile) ==
    /\ listening
    /\ hPc[r] = "idle"
    /\ IF hasFile
       THEN /\ hPc' = [hPc EXCEPT ![r] = "t_write"]
            /\ hSent' = [hSent EXCEPT ![r] = 0]
            /\ UNCHANGED <<hReq, hSub, sent>>
       ELSE /\ sent' = Resp("transcribe", 400, "no_audio")
            /\ hSent' = [hSent EXCEPT ![r] = 1]
            /\ UNCHANGED <<hPc, hReq, hSub>>
    /\ UNCHANGED tmpFile
    /\ UNCHANGED <<bootVars, lkVars>>

\* writeFile opens /tmp/input.webm for writing, which truncates it.
WriteOpen(r) ==
    /\ hPc[r] = "t_write"
    /\ tmpFile' = EmptyFile
    /\ hPc' = [hPc EXCEPT ![r] = "t_opened"]
    /\ UNCHANGED <<hReq, hSub, hSent, sent>>
    /\ UNCHANGED <<bootVars, lkVars>>

\* writeFile writes req.file.buffer and resolves; the handler goes on to
\* call transcriptions.create with createReadStream(tmp) (lines 234-237).
WriteData(r) ==
    /\ hPc[r] = "t_opened"
    /\ tmpFile' = Upload(r)
    /\ hPc' = [hPc EXCEPT ![r] = "t_written"]
    /\ UNCHANGED <<hReq, hSub, hSent, sent>>
    /\ UNCHANGED <<bootVars, lkVars>>

\* writeFile rejects: caught at line 240.
WriteFails(r) ==
    /\ hPc[r] \in {"t_write", "t_opened"}
    /\ Respond(r, Resp("transcribe", 500, "transcription_failed"))
    /\ UNCHANGED tmpFile
    /\ UNCHANGED <<bootVars, lkVars>>

\* StreamRead that uploads the request's own buffer, not the shared file.
StreamReadOwnBuffer(r) ==
    /\ hPc[r] = "t_written"
    /\ hSub' = [hSub EXCEPT ![r] = Upload(r)]
    /\ hPc' = [hPc EXCEPT ![r] = "t_sent"]
    /\ UNCHANGED <<tmpFile, hReq, hSent, sent>>
    /\ UNCHANGED <<bootVars, lkVars>>

\* The client reads the stream of line 236 and uploads what the file holds.
StreamRead(r) ==
    /\ hPc[r] = "t_written"
    /\ hSub' = [hSub EXCEPT ![r] = tmpFile]
    /\ hPc' = [hPc EXCEPT ![r] = "t_sent"]
    /\ UNCHANGED <<tmpFile, hReq, hSent, sent>>
    /\ UNCHANGED <<bootVars, lkVars>>

\* transcriptions.create resolves: line 239.
TranscribeReturns(r, text) ==
    /\ hPc[r] = "t_sent"
    /\ Respond(r, [Resp("transcribe", 200, "") EXCEPT
                      !.upstream = "returned",
                      !.text = IF Truthy(text) THEN text ELSE JStr(<<>>)])
    /\ UNCHANGED tmpFile
    /\ UNCHANGED <<bootVars, lkVars>>

\* TranscribeThrows without the try/catch of lines 229 and 240: the
\* rejection is unhandled and ends the process.
TranscribeThrowsUncaught(r) ==
    /\ hPc[r] \in {"t_written", "t_sent"}
    /\ hPc' = [hPc EXCEPT ![r] = "idle"]
    /\ hSub' = [hSub EXCEPT ![r] = NoFile]
    /\ mainPc' = "exited"
    /\ exitCode' = 1
    /\ listening' = FALSE
    /\ UNCHANGED <<tmpFile, hReq, hSent, sent>>
    /\ UNCHANGED <<envKey, OPENAI_API_KEY, KEY_SOURCE, clientKey>>
    /\ UNCHANGED lkVars

\* transcriptions.create rejects: caught at line 240.
TranscribeThrows(r) ==
    /\ hPc[r] \in {"t_written", "t_sent"}
    /\ Respond(r, Resp("transcribe", 500, "transcription_failed"))
    /\ UNCHANGED tmpFile
    /\ UNCHANGED <<bootVars, lkVars>>

-----------------------------------------------------------------------------
(* POST /api/intent, lines 247-287 (first variant: lines 62-95).           *)

\* The check of line 250 without its last disjunct, !commands.length.
IntentValidNoLength(req) ==
    /\ TypeOf(req.text) = "string"
    /\ req.isArray

\* Line 250 (and 65): the request passes validation.
IntentValid(req) ==
    /\ TypeOf(req.text) = "string"
    /\ req.isArray
    /\ Len(req.commands) > 0

\* confidence = 0.5, the default of lines 279 and 282 (and 87), as 5/10
DefaultConfidence == 5

\* Lines 271-276: content ?? "{}" is parsed; text that is not JSON gives {}.
IntentOut(reply) ==
    IF reply.choice /\ reply.present /\ reply.valid
    THEN [t |-> reply.t, command |-> reply.command, confidence |-> reply.confidence]
    ELSE [t |-> "object", command |-> JUndef, confidence |-> JUndef]

\* Line 278: new Set(commands.map(String))
Whitelist(req) == {ToStr(req.commands[i]) : i \in 1..Len(req.commands)}

\* Lines 279-280: command defaults to null, and is null unless the set has it.
IntentCommand(req, out) ==
    LET command == IF out.t = "object" /\ out.command.t # "undefined"
                   THEN out.command ELSE JNull
    IN  IF command.t = "string" /\ command.s \in Whitelist(req)
        THEN command ELSE JNull

\* Lines 279 and 282: confidence defaults to 0.5; Number(confidence) || 0.5
IntentConfidence(out) ==
    LET confidence == IF out.t = "object" /\ out.confidence.t # "undefined"
                      THEN out.confidence ELSE JNum(DefaultConfidence)
        n == ToNum(confidence)
    IN  IF Truthy(n) THEN n ELSE JNum(DefaultConfidence)

\* Lines 271-286 for the reply of the upstream call: destructuring null
\* (line 279) throws a TypeError, caught at line 283.
IntentResponse(req, reply) ==
    LET out == IntentOut(reply)
    IN  IF out.t = "null"
        THEN [Resp("intent", 500, "intent_failed") EXCEPT
                 !.upstream = "returned", !.req = req, !.reply = reply]
        ELSE [Resp("intent", 200, "") EXCEPT
                 !.upstream = "returned",
                 !.command = IntentCommand(req, out),
                 !.confidence = IntentConfidence(out),
                 !.source = "openai",
                 !.req = req, !.reply = reply]

\* First variant, lines 85-94: choices[0].message.content is parsed without
\* a guard, the parsed value gets source, confidence (unless it is a number)
\* and command (unless it is a string) assigned and is sent as it is.  A
\* missing choice, content that is not JSON text, and a parsed value that
\* cannot take properties (null or a primitive, in strict mode) throw.
IntentResponseV1(req, reply) ==
    IF \/ ~reply.choice
       \/ ~reply.present
       \/ ~reply.valid
       \/ reply.t \notin {"object", "array"}
    THEN [Resp("intent", 500, "intent_failed") EXCEPT
             !.upstream = "returned", !.req = req, !.reply = reply]
    ELSE IF reply.t = "array"
    THEN [Resp("intent", 200, "") EXCEPT
             !.upstream = "returned", !.req = req, !.reply = reply]
    ELSE [Resp("intent", 200, "") EXCEPT
             !.upstream = "returned",
             !.command = IF TypeOf(reply.command) = "string"
                         THEN reply.command ELSE JNull,
             !.confidence = IF TypeOf(reply.confidence) = "number"
                            THEN reply.confidence ELSE JNum(DefaultConfidence),
             !.source = "openai",
             !.extra = reply.extra,
             !.req = req, !.reply = reply]

\* Lines 249-269: a request arrives in a free slot; it is answered 400 if it
\* is malformed, else chat.completions.create is called.
IntentArrive(r, req) ==
    /\ listening
    /\ hPc[r] = "idle"
    /\ IF IntentValid(req)
       THEN /\ hPc' = [hPc EXCEPT ![r] = "i_called"]
            /\ hReq' = [hReq EXCEPT ![r] = req]
            /\ hSent' = [hSent EXCEPT ![r] = 0]
            /\ UNCHANGED <<hSub, sent>>
       ELSE /\ sent' = [Resp("intent", 400, "bad_request") EXCEPT !.req = req]
            /\ hSent' = [hSent EXCEPT ![r] = 1]
            /\ UNCHANGED <<hPc, hReq, hSub>>
    /\ UNCHANGED tmpFile
    /\ UNCHANGED <<bootVars, lkVars>>

\* chat.completions.create resolves with reply.
IntentReturns(r, reply) ==
    /\ hPc[r] = "i_called"
    /\ Respond(r, IntentResponse(hReq[r], reply))
    /\ UNCHANGED tmpFile
    /\ UNCHANGED <<bootVars, lkVars>>

IntentReturnsV1(r, reply) ==
    /\ hPc[r] = "i_called"
    /\ Respond(r, IntentResponseV1(hReq[r], reply))
    /\ UNCHANGED tmpFile
    /\ UNCHANGED <<bootVars, lkVars>>

\* IntentThrows that drops the credential when the upstream call fails.
IntentThrowsResetKey(r) ==
    /\ hPc[r] = "i_called"
    /\ Respond(r, [Resp("intent", 500, "intent_failed") EXCEPT
                      !.upstream = "threw", !.req = hReq[r]])
    /\ OPENAI_API_KEY' = JNull
    /\ KEY_SOURCE' = NoSource
    /\ UNCHANGED tmpFile
    /\ UNCHANGED <<envKey, mainPc, exitCode, clientKey, listening>>
    /\ UNCHANGED lkVars

\* chat.completions.create rejects: caught at line 283 (91).
IntentThrows(r) ==
    /\ hPc[r] = "i_called"
    /\ Respond(r, [Resp("intent", 500, "intent_failed") EXCEPT
                      !.upstream = "threw", !.req = hReq[r]])
    /\ UNCHANGED tmpFile
    /\ UNCHANGED <<bootVars, lkVars>>

-----------------------------------------------------------------------------
(* Specifications.                                                         *)

InitRequests ==
    /\ tmpFile = NoFile
    /\ hPc = [r \in Reqs |-> "idle"]
    /\ hReq = [r \in Reqs |-> NoReq]
    /\ hSub = [r \in Reqs |-> NoFile]
    /\ hSent = [r \in Reqs |-> 0]
    /\ sent = NoResp

InitProcess ==
    /\ envKey \in EnvValues
    /\ OPENAI_API_KEY = JNull
    /\ KEY_SOURCE = NoSource
    /\ exitCode = 0 - 1
    /\ clientKey = JUndef
    /\ listening = FALSE

InitLk ==
    /\ lkPc = "idle"
    /\ maxAttempts = 0
    /\ attempt = 0
    /\ requests = 0
    /\ waits = 0
    /\ timerArmed = FALSE
    /\ lkErr = "none"
    /\ lkBody = NoBody
    /\ lkKey = JUndef
    /\ lkResult = JUndef

\* The server of lines 102-298 as the module is loaded: main() is called.
Init ==
    /\ InitProcess
    /\ mainPc = "initKey"
    /\ InitLk
    /\ InitRequests

Transcribe(r) ==
    \/ \E hasFile \in BOOLEAN : TranscribeArrive(r, hasFile)
    \/ WriteOpen(r)
    \/ WriteData(r)
    \/ WriteFails(r)
    \/ StreamRead(r)
    \/ \E text \in TranscriptTexts : TranscribeReturns(r, text)
    \/ TranscribeThrows(r)

Next ==
    \/ InitKeyCall
    \/ Resolver(CoreBodies)
    \/ InitKeyRemote
    \/ InitKeyFallback
    \/ MainWire
    \/ ListenOk
    \/ ListenError
    \/ Health
    \/ \E r \in Reqs : Transcribe(r)
    \/ \E r \in Reqs : \E req \in CoreRequests : IntentArrive(r, req)
    \/ \E r \in Reqs : \E reply \in CoreReplies : IntentReturns(r, reply)
    \/ \E r \in Reqs : IntentThrows(r)

Spec == Init /\ [][Next]_vars

\* The steps of the bootstrap that the runtime takes by itself: the code of
\* initKey and loadKeyFromMockAPI between two awaits, and the timers of
\* lines 120 and 172.  What the remote endpoint does (a network error, the
\* response, its body) is not among them.
BootstrapStep ==
    \/ InitKeyCall
    \/ LoadKeyFetch
    \/ LoadKeyExhausted
    \/ FetchTimeout
    \/ WaitDone
    \/ InitKeyRemote
    \/ InitKeyFallback
    \/ MainWire

\* The server of main() with an event loop that runs every step and fires
\* every timer that stays pending.
SpecFair == Init /\ [][Next]_vars /\ WF_vars(BootstrapStep)

\* The first variant, lines 1-100.
InitV1 ==
    /\ InitProcess
    /\ mainPc = "v1_check"
    /\ InitLk
    /\ InitRequests

NextV1 ==
    \/ V1EarlyCheck
    \/ ListenOk
    \/ ListenError
    \/ HealthV1
    \/ \E r \in Reqs : Transcribe(r)
    \/ \E r \in Reqs : \E req \in IntentRequests : IntentArrive(r, req)
    \/ \E r \in Reqs : \E reply \in UpstreamReplies : IntentReturnsV1(r, reply)
    \/ \E r \in Reqs : IntentThrows(r)

SpecV1 == InitV1 /\ [][NextV1]_vars

\* loadKeyFromMockAPI(maxAttempts, delayMs) called on its own.
InitResolver ==
    /\ InitProcess
    /\ mainPc = "caller"
    /\ lkPc = "loop"
    /\ maxAttempts \in 0..MaxAttemptsArg
    /\ attempt = 1
    /\ requests = 0
    /\ waits = 0
    /\ timerArmed = FALSE
    /\ lkErr = "none"
    /\ lkBody = NoBody
    /\ lkKey = JUndef
    /\ lkResult = JUndef
    /\ InitRequests

NextResolver == Resolver(RemoteBodies)

SpecResolver == InitResolver /\ [][NextResolver]_vars

\* extractKeyFromBody alone: the first attempt of loadKeyFromMockAPI, as
\* initKey calls it (line 182), has its response and is reading the body
\* (line 163); the body is any payload of ExtractBodies.
InitExtract ==
    /\ InitProcess
    /\ mainPc = "caller"
    /\ lkPc = "body"
    /\ maxAttempts = InitKeyAttempts
    /\ attempt = 1
    /\ requests = 1
    /\ waits = 0
    /\ timerArmed = FALSE
    /\ lkErr = "none"
    /\ lkBody = NoBody
    /\ lkKey = JUndef
    /\ lkResult = JUndef
    /\ InitRequests

NextExtract == lkPc = "body" /\ \E body \in ExtractBodies : BodyArrives(body)

SpecExtract == InitExtract /\ [][NextExtract]_vars

\* The intent handler of lines 247-287 in a server that is up: the
\* bootstrap took the key from the remote endpoint and the port is bound.
InitIntent ==
    /\ envKey = JUndef
    /\ OPENAI_API_KEY = JStr(KeyA)
    /\ KEY_SOURCE = "mockapi"
    /\ mainPc = "serving"
    /\ exitCode = 0 - 1
    /\ clientKey = JStr(KeyA)
    /\ listening = TRUE
    /\ InitLk
    /\ InitRequests

NextIntent ==
    \/ \E r \in Reqs : \E req \in IntentRequests : IntentArrive(r, req)
    \/ \E r \in Reqs : \E reply \in UpstreamReplies : IntentReturns(r, reply)
    \/ \E r \in Reqs : IntentThrows(r)

SpecIntent == InitIntent /\ [][NextIntent]_vars

\* Spec violates this: InitIntent is a state the whole server reaches.
InitIntentUnreached ==
    ~ (/\ envKey = JUndef
       /\ OPENAI_API_KEY = JStr(KeyA)
       /\ KEY_SOURCE = "mockapi"
       /\ mainPc = "serving"
       /\ exitCode = 0 - 1
       /\ clientKey = JStr(KeyA)
       /\ listening = TRUE
       /\ InitLk
       /\ InitRequests)

-----------------------------------------------------------------------------
(* Properties.                                                             *)

Sources == {"mockapi", "env"}
Running == exitCode = 0 - 1
HandlerActive == (\E r \in Reqs : hPc[r] # "idle" \/ hSent[r] # 0) \/ sent # NoResp

\* C1: the server listens, and a request handler runs, only once the
\* bootstrap has resolved a credential: whenever the server is listening the
\* credential is not null and its source is 'mockapi' or 'env'; a process
\* that has exited is not listening and has run no handler.
C1_ListenAfterBootstrap ==
    /\ listening => /\ OPENAI_API_KEY # JNull
                    /\ Truthy(OPENAI_API_KEY)
                    /\ KEY_SOURCE \in Sources
                    /\ clientKey = OPENAI_API_KEY
    /\ HandlerActive => listening
    /\ ~Running => ~listening /\ ~HandlerActive

\* C1 witness: the server listens with the fallback credential and has
\* answered a request.
C1_Witness ==
    /\ listening
    /\ KEY_SOURCE = "env"
    /\ OPENAI_API_KEY = JStr(KeyE)
    /\ sent.kind = "intent"

\* C2: loadKeyFromMockAPI never raises, issues at most maxAttempts requests,
\* and when every attempt has failed it has issued exactly maxAttempts
\* requests and returns null.
C2_RetryBound ==
    /\ lkPc # "raised"
    /\ requests <= maxAttempts
    /\ attempt > maxAttempts => /\ requests = maxAttempts
                                /\ lkPc \in {"loop", "returned"}
                                /\ lkPc = "returned" => lkResult = JNull
    /\ (lkPc = "returned" /\ ~Truthy(lkResult)) => /\ lkResult = JNull
                                                   /\ requests = maxAttempts

\* C2 witness: three attempts, all failed, the last for a body without a
\* key, and null returned.
C2_Witness ==
    /\ lkPc = "returned"
    /\ lkResult = JNull
    /\ maxAttempts = 3
    /\ requests = 3
    /\ lkErr = "nokey"

\* C3: when the resolver has returned null, initKey takes the environment
\* value, if there is one, as the credential with source 'env'; if there is
\* none the process exits with a non-zero status, and the credential of an
\* exited process stays unset.
C3_Fallback ==
    [][/\ (mainPc = "resolving" /\ lkPc = "returned" /\ lkResult = JNull
              /\ mainPc' # "resolving")
          => IF envKey \notin {JUndef, JStr(<<>>)}
             THEN /\ OPENAI_API_KEY' = envKey
                  /\ KEY_SOURCE' = "env"
                  /\ exitCode' = 0 - 1
                  /\ mainPc' = "keyed"
             ELSE /\ exitCode' > 0
                  /\ mainPc' = "exited"
                  /\ OPENAI_API_KEY' = JNull
                  /\ KEY_SOURCE' = NoSource
       /\ (mainPc = "exited" /\ OPENAI_API_KEY = JNull)
          => (OPENAI_API_KEY' = JNull /\ KEY_SOURCE' = NoSource /\ ~listening')
      ]_vars

\* C3 witness: the resolver failed and the environment value is the
\* credential.
C3_Witness ==
    /\ mainPc = "keyed"
    /\ KEY_SOURCE = "env"
    /\ OPENAI_API_KEY = envKey
    /\ envKey = JStr(KeyE)

\* A valid intent request as the data model has it: text is a string and
\* commands is a non-empty sequence of strings.
WellFormed(req) ==
    /\ IntentValid(req)
    /\ \A i \in 1..Len(req.commands) : req.commands[i].t = "string"

\* C4: for a valid request, the command of a 200 response of the intent
\* handler is null (or not there) or one of the request's commands.
C4_CommandWhitelisted ==
    (sent.kind = "intent" /\ sent.status = 200 /\ WellFormed(sent.req))
    => \/ sent.command \in {JNull, JUndef}
       \/ \E i \in 1..Len(sent.req.commands) : sent.req.commands[i] = sent.command

TranscribePcs == {"t_write", "t_opened", "t_written", "t_sent"}

\* C5: transcription requests share the temporary file without mutual
\* exclusion: a request's write replaces the file whatever other requests
\* are doing, and what is submitted for a request is what the file holds
\* when its stream is read, whoever wrote it.
C5_SharedTmpFile ==
    [][\A r \in Reqs :
          /\ (hPc[r] = "t_opened" /\ hPc'[r] = "t_written") => tmpFile' = Upload(r)
          /\ (hPc[r] = "t_written" /\ hPc'[r] = "t_sent")
             => /\ hSub'[r] = tmpFile
                /\ hSub'[r] \in {EmptyFile} \cup {Upload(q) : q \in Reqs}
      ]_vars

\* C5 witness: with two transcription requests in flight, the audio
\* submitted for one is the upload of the other.
C5_Witness ==
    \E r, q \in Reqs :
       /\ r # q
       /\ hPc[r] = "t_sent"
       /\ hPc[q] \in {"t_written", "t_sent"}
       /\ hSub[r] = Upload(q)

\* C6: for a valid request, when the upstream call has returned, the intent
\* handler answers 200 with source "openai", with command null and
\* confidence 0.5 for content that is missing or is not JSON; it answers 500
\* only when the call threw.
C6_OkWheneverUpstreamReturns ==
    (sent.kind = "intent" /\ WellFormed(sent.req))
    => /\ sent.upstream = "returned"
          => /\ sent.status = 200
             /\ sent.source = "openai"
             /\ ~(sent.reply.choice /\ sent.reply.present /\ sent.reply.valid)
                => /\ sent.command = JNull
                   /\ sent.confidence = JNum(DefaultConfidence)
       /\ sent.status = 500 => sent.upstream = "threw"

\* C7: for a valid request, the confidence of a 200 response is Number(c)
\* when the upstream confidence c is there (not undefined, not null) and
\* Number(c) is a number, and 0.5 otherwise.
C7_ConfidenceCoerced ==
    (sent.kind = "intent" /\ sent.status = 200 /\ WellFormed(sent.req))
    => LET c == IF sent.reply.choice /\ sent.reply.present /\ sent.reply.valid
                   /\ sent.reply.t = "object"
                THEN sent.reply.confidence ELSE JUndef
       IN  IF c.t \notin {"undefined", "null"} /\ ToNum(c).t = "number"
           THEN sent.confidence = ToNum(c)
           ELSE sent.confidence = JNum(DefaultConfidence)

\* C8: the confidence of a 200 response of the intent handler is a number
\* in [0, 1].
C8_ConfidenceInUnitInterval ==
    (sent.kind = "intent" /\ sent.status = 200 /\ WellFormed(sent.req))
    => /\ sent.confidence.t = "number"
       /\ sent.confidence.n >= 0
       /\ sent.confidence.n <= 10

\* C9: a transcription handler that is running leaves the process running,
\* listening and with its credential as it was; when it ends other than with
\* the 200 of a returned upstream call it has answered 500
\* transcription_failed, once, and its slot is free for the next request.
C9_TranscribeFailureCaught ==
    [][\A r \in Reqs :
          hPc[r] \in TranscribePcs
          => /\ listening'
             /\ exitCode' = 0 - 1
             /\ mainPc' = "serving"
             /\ OPENAI_API_KEY' = OPENAI_API_KEY
             /\ KEY_SOURCE' = KEY_SOURCE
             /\ clientKey' = clientKey
             /\ hPc'[r] \in TranscribePcs \cup {"idle"}
             /\ hPc'[r] = "idle"
                => /\ sent'.kind = "transcribe"
                   /\ hSent'[r] = 1
                   /\ \/ /\ sent'.status = 500
                         /\ sent'.error = "transcription_failed"
                      \/ /\ sent'.status = 200
                         /\ sent'.upstream = "returned"
                         /\ hPc[r] = "t_sent"
      ]_vars

\* C9 witness: a transcription failed before its upload was read, the 500
\* is out, the server listens with its credential and every slot is free.
C9_Witness ==
    /\ sent.kind = "transcribe"
    /\ sent.status = 500
    /\ sent.error = "transcription_failed"
    /\ tmpFile = EmptyFile
    /\ listening
    /\ clientKey = OPENAI_API_KEY
    /\ \A r \in Reqs : hPc[r] = "idle"

\* C10: the credential and its source are assigned once, by initKey, before
\* the server listens; the client is built once, with that credential; no
\* later step changes any of them.
C10_CredentialImmutable ==
    [][/\ (OPENAI_API_KEY' # OPENAI_API_KEY \/ KEY_SOURCE' # KEY_SOURCE)
          => /\ mainPc = "resolving"
             /\ OPENAI_API_KEY = JNull
             /\ KEY_SOURCE = NoSource
             /\ ~listening
             /\ ~listening'
       /\ clientKey' # clientKey
          => /\ mainPc = "keyed"
             /\ clientKey = JUndef
       /\ clientKey' # JUndef => clientKey' = OPENAI_API_KEY'
      ]_vars

\* C10 witness: the server runs on the remote key, an upstream call has
\* failed, and credential, source and client are those of the bootstrap.
C10_Witness ==
    /\ listening
    /\ sent.upstream = "threw"
    /\ KEY_SOURCE = "mockapi"
    /\ OPENAI_API_KEY = JStr(KeyA)
    /\ clientKey = JStr(KeyA)

\* C11 as stated: when the payload is an array whose first element has the
\* field api_key, extractKeyFromBody returns that value trimmed; when the
\* payload is an object with none of the named fields and a string property
\* longer than 20 characters, it returns that string; when the candidate
\* has neither a named field nor such a string, it returns null and the
\* resolver counts the attempt as failed.
C11_ExtractCases ==
    lkBody # NoBody =>
      LET c == IF lkBody.t = "array" /\ Len(lkBody.elems) > 0
               THEN lkBody.elems[1] ELSE lkBody
          anyNamed == \E i \in 1..Len(possibleFields) : HasOwn(c, possibleFields[i])
          longs == {k \in 1..Len(c.fields) :
                       /\ c.fields[k].val.t = "string"
                       /\ Len(c.fields[k].val.s) > 20}
      IN  /\ (lkBody.t = "array" /\ Len(lkBody.elems) > 0 /\ HasOwn(c, "api_key"))
             => lkKey = JStr(Trim(ToStr(GetProp(c, "api_key"))))
          /\ (lkBody.t = "object" /\ ~anyNamed /\ longs # {})
             => \E k \in longs : lkKey = c.fields[k].val
          /\ (~anyNamed /\ longs = {})
             => /\ lkKey = JNull
                /\ lkErr = "nokey"
                /\ lkPc \in {"waiting", "loop"}
                /\ lkResult = JUndef

\* C11 amended: when the payload is an array whose first element has a
\* truthy field api_key, extractKeyFromBody returns that value converted to
\* a string and trimmed; when the payload is an object with none of the
\* named fields and a string property longer than 20 characters, it returns
\* that string trimmed; when the candidate has neither a named field nor
\* such a string, it returns null and the resolver counts the attempt as
\* failed.
C11_ExtractCasesTrimmed ==
    lkBody # NoBody =>
      LET c == IF lkBody.t = "array" /\ Len(lkBody.elems) > 0
               THEN lkBody.elems[1] ELSE lkBody
          anyNamed == \E i \in 1..Len(possibleFields) : HasOwn(c, possibleFields[i])
          longs == {k \in 1..Len(c.fields) :
                       /\ c.fields[k].val.t = "string"
                       /\ Len(c.fields[k].val.s) > 20}
      IN  /\ (lkBody.t = "array" /\ Len(lkBody.elems) > 0 /\ HasOwn(c, "api_key")
                 /\ Truthy(GetProp(c, "api_key")))
             => lkKey = JStr(Trim(ToStr(GetProp(c, "api_key"))))
          /\ (lkBody.t = "object" /\ ~anyNamed /\ longs # {})
             => \E k \in longs : lkKey = JStr(Trim(c.fields[k].val.s))
          /\ (~anyNamed /\ longs = {})
             => /\ lkKey = JNull
                /\ lkErr = "nokey"
                /\ lkPc \in {"waiting", "loop"}
                /\ lkResult = JUndef

\* C11 witness: the payload is an object whose only property is a padded
\* string of more than 20 characters, and the resolver has returned that
\* string without the padding.
C11_Witness ==
    /\ lkBody = BObj(<<Prop("note", JStr(<<" ">> \o LongStr))>>)
    /\ lkKey = JStr(LongStr)
    /\ lkPc = "returned"
    /\ lkResult = JStr(LongStr)

\* C19: extractKeyFromBody works on the first element of a non-empty array
\* payload, otherwise on the payload itself, and returns the value,
\* converted to a string and trimmed, of the first field in the order
\* api_key, apikey, key, token, value, secret that is present and truthy,
\* whether or not a string longer than 20 characters is present; only when
\* none of the named fields matches is the result a long string or null.
C19_FieldPriority ==
    lkBody # NoBody =>
      LET c == IF lkBody.t = "array" /\ Len(lkBody.elems) > 0
               THEN lkBody.elems[1] ELSE lkBody
          order == <<"api_key", "apikey", "key", "token", "value", "secret">>
          matches == {i \in 1..Len(order) :
                         HasOwn(c, order[i]) /\ Truthy(GetProp(c, order[i]))}
          others == {i \in 1..Len(possibleFields) :
                         /\ \A j \in 1..Len(order) : order[j] # possibleFields[i]
                         /\ HasOwn(c, possibleFields[i])
                         /\ Truthy(GetProp(c, possibleFields[i]))}
          longs == {k \in 1..Len(c.fields) :
                       /\ c.fields[k].val.t = "string"
                       /\ Len(c.fields[k].val.s) > 20}
      IN  /\ matches # {}
             => \E i \in matches :
                   /\ \A j \in matches : i <= j
                   /\ lkKey = JStr(Trim(ToStr(GetProp(c, order[i]))))
          /\ (matches = {} /\ others = {})
             => \/ lkKey = JNull
                \/ \E k \in longs : lkKey = JStr(Trim(c.fields[k].val.s))

\* C19 witness: the first element of the array payload has secret before
\* key, key holds a number, and the key returned is that number as a string.
C19_Witness ==
    /\ lkBody = BArr(<<BObj(<<Prop("secret", JStr(<<" ">> \o KeyA \o <<" ">>)),
                              Prop("key", JNum(70))>>)>>)
    /\ lkKey = JStr(<<"7">>)
    /\ lkPc = "returned"

\* C12: every attempt of the resolver ends, by the timeout-based abort if
\* the endpoint never finishes responding, so the bootstrap eventually
\* either has a credential or has terminated the process.
C12_BootstrapEnds == <>(mainPc \in {"keyed", "binding", "serving", "exited"})

\* C13: an intent request whose text is not a string, or whose commands is
\* missing, not an array, or empty, is answered with status 400 and
\* {error: "bad_request"}; no call to the classification service is made for
\* it, and the handler ends with that one response.
C13_BadRequestRejected ==
    /\ [](LET Bad(req) == \/ req.text.t # "string"
                          \/ ~req.isArray
                          \/ Len(req.commands) = 0
          IN  /\ (sent.kind = "intent" /\ Bad(sent.req))
                 => /\ sent.status = 400
                    /\ sent.error = "bad_request"
                    /\ sent.upstream = "none"
                    /\ sent.command = JUndef
                    /\ sent.confidence = JUndef
                    /\ sent.source = ""
              /\ \A r \in Reqs : hPc[r] = "i_called" => ~Bad(hReq[r]))
    /\ [][\A r \in Reqs : \A req \in IntentRequests :
             (/\ \/ req.text.t # "string"
                 \/ ~req.isArray
                 \/ Len(req.commands) = 0
              /\ IntentArrive(r, req))
             => /\ sent' = [Resp("intent", 400, "bad_request") EXCEPT !.req = req]
                /\ hSent'[r] = 1
                /\ hPc' = hPc
                /\ hReq' = hReq
          ]_vars

\* C13 witness: a request with an empty commands array has been answered
\* with 400 bad_request while the other slot's valid request is still
\* waiting for the classification service.
C13_Witness ==
    /\ sent.kind = "intent"
    /\ sent.status = 400
    /\ sent.error = "bad_request"
    /\ sent.req = IntentBody(JStr(S_t), TRUE, <<>>)
    /\ hPc[1] = "idle"
    /\ hSent[1] = 1
    /\ hPc[2] = "i_called"

\* C14: a transcription request without an audio attachment is answered
\* with status 400 and {error: "no_audio"}; in handling it the temporary
\* file is not written and no call to the transcription service is started.
C14_NoAudioRejected ==
    [][\A r \in Reqs :
          TranscribeArrive(r, FALSE)
          => /\ sent' = Resp("transcribe", 400, "no_audio")
             /\ hSent'[r] = 1
             /\ tmpFile' = tmpFile
             /\ hPc' = hPc
             /\ hSub' = hSub
      ]_vars

\* C14 witness: a request without attachment has been answered with 400
\* no_audio while the file holds the upload of the other request, which is
\* about to read it back.
C14_Witness ==
    /\ sent = Resp("transcribe", 400, "no_audio")
    /\ hPc[1] = "idle"
    /\ hSent[1] = 1
    /\ hSub[1] = NoFile
    /\ hPc[2] = "t_written"
    /\ tmpFile = Upload(2)

\* C16: the attempts of loadKeyFromMockAPI are sequential and stop at the
\* first success: a request is issued only from the head of the loop, when
\* no request is pending, no key has been returned and, for every attempt
\* but the first, the attempt before has failed; the k-th request belongs
\* to attempt k; the value returned on success is the key extracted in that
\* attempt, nothing changes after the return, and the number of requests
\* never exceeds maxAttempts.
C16_SequentialAttempts ==
    /\ [](/\ requests <= maxAttempts
          /\ lkPc \in {"headers", "body", "waiting"} => requests = attempt
          /\ lkPc = "loop" => requests = attempt - 1
          /\ (lkPc = "returned" /\ Truthy(lkResult))
             => /\ requests = attempt
                /\ lkBody # NoBody
                /\ lkResult = lkKey)
    /\ [][/\ requests' # requests
             => /\ requests' = requests + 1
                /\ lkPc = "loop"
                /\ lkPc' = "headers"
                /\ ~Truthy(lkResult)
                /\ (attempt > 1 => lkErr # "none")
          /\ lkPc = "returned"
             => /\ lkPc' = "returned"
                /\ requests' = requests
                /\ lkResult' = lkResult
         ]_vars

\* C16 witness: the third of four attempts succeeded after two failures;
\* three requests were issued and the key of the third body was returned.
C16_Witness ==
    /\ lkPc = "returned"
    /\ maxAttempts = 4
    /\ attempt = 3
    /\ requests = 3
    /\ lkResult = JStr(KeyA)
    /\ lkKey = JStr(KeyA)

\* C17: a failed attempt, whatever its kind (network error or timeout,
\* non-success status, body that cannot be read or holds no key), consumes
\* one attempt and is followed by one wait exactly when attempts remain:
\* there is no wait after the last failed attempt and none after a
\* successful one.
C17_UniformRetryPath ==
    /\ [](/\ lkPc \in {"headers", "body", "waiting"} => waits = attempt - 1
          /\ lkPc = "waiting" => attempt < maxAttempts
          /\ (lkPc = "loop" /\ attempt <= maxAttempts) => waits = attempt - 1
          /\ (lkPc = "loop" /\ attempt > maxAttempts)
             => waits = IF maxAttempts > 0 THEN maxAttempts - 1 ELSE 0
          /\ (lkPc = "returned" /\ Truthy(lkResult)) => waits = requests - 1
          /\ (lkPc = "returned" /\ ~Truthy(lkResult))
             => waits = IF maxAttempts > 0 THEN maxAttempts - 1 ELSE 0)
    /\ [][/\ (lkPc \in {"headers", "body"} /\ lkPc' \notin {"headers", "body", "returned"})
             => /\ lkErr' \in {"network", "timeout", "http", "json", "nokey"}
                /\ requests' = requests
                /\ waits' = waits
                /\ IF attempt < maxAttempts
                   THEN lkPc' = "waiting" /\ attempt' = attempt
                   ELSE lkPc' = "loop" /\ attempt' = attempt + 1
          /\ (lkPc = "waiting" /\ lkPc' # "waiting")
             => /\ lkPc' = "loop"
                /\ attempt' = attempt + 1
                /\ waits' = waits + 1
          /\ waits' # waits => lkPc = "waiting"
         ]_vars

\* C17 witness: three attempts failed, the last for a body without key; two
\* waits were made, none after the third failure.
C17_Witness ==
    /\ lkPc = "loop"
    /\ maxAttempts = 3
    /\ attempt = 4
    /\ requests = 3
    /\ waits = 2
    /\ lkErr = "nokey"
    /\ lkKey = JNull

\* C18: the remote source takes precedence and the source tag matches the
\* origin: when the resolver has returned a credential the bootstrap takes
\* that value, tags it 'mockapi' and goes on without exiting, whatever the
\* environment holds; the environment value is used, and the process exits
\* for lack of a credential, only after the resolver has returned null.
C18_RemotePrecedence ==
    [][/\ (mainPc = "resolving" /\ lkPc = "returned" /\ Truthy(lkResult)
              /\ mainPc' # mainPc)
          => /\ OPENAI_API_KEY' = lkResult
             /\ KEY_SOURCE' = "mockapi"
             /\ mainPc' = "keyed"
             /\ exitCode' = 0 - 1
       /\ (\/ KEY_SOURCE' = "env" /\ KEY_SOURCE # "env"
           \/ clientKey' # clientKey /\ clientKey' # OPENAI_API_KEY')
          => /\ lkPc = "returned"
             /\ lkResult = JNull
       /\ (exitCode' > 0 /\ exitCode < 0 /\ mainPc # "binding")
          => /\ lkPc = "returned"
             /\ lkResult = JNull
      ]_vars

\* C20: a run of the transcription or intent handler writes at most one
\* response: none while it is at work, exactly one when it ends, and it
\* ends in the step in which its upstream call returns or throws; the
\* status is 200, 400 or 500, and a response with another status than 200
\* holds an error field with one of the handler's fixed codes and nothing
\* else.
C20_OneResponse ==
    /\ [](/\ \A r \in Reqs : /\ hSent[r] <= 1
                              /\ hPc[r] # "idle" => hSent[r] = 0
          /\ sent.kind \in {"transcribe", "intent"}
             => /\ sent.status \in {200, 400, 500}
                /\ sent.status = 200 => sent.error = ""
                /\ sent.status # 200
                   => /\ sent.text = JUndef
                      /\ sent.command = JUndef
                      /\ sent.confidence = JUndef
                      /\ sent.source = ""
                      /\ ~sent.extra
                      /\ sent.kind = "transcribe"
                         => sent.error \in {"no_audio", "transcription_failed"}
                      /\ sent.kind = "intent"
                         => sent.error \in {"bad_request", "intent_failed"})
    /\ [][\A r \in Reqs :
             /\ (hPc[r] # "idle" /\ hPc'[r] = "idle") => hSent'[r] = 1
             /\ (hPc[r] \in {"t_sent", "i_called"} /\ hPc'[r] # hPc[r])
                => /\ hPc'[r] = "idle"
                   /\ hSent'[r] = 1
                   /\ sent'.kind \in {"transcribe", "intent"}
         ]_vars

\* C20 witness: both slots have answered their request once, the last
\* response being the 500 of a failed transcription.
C20_Witness ==
    /\ sent.kind = "transcribe"
    /\ sent.status = 500
    /\ sent.error = "transcription_failed"
    /\ \A r \in Reqs : hPc[r] = "idle" /\ hSent[r] = 1

====
